---- MODULE Spec2Model ----
(***************************************************************************)
(* A model of tensor2tensor/models/research/rl.py: the hyperparameter      *)
(* presets, the environment factory functions, get_policy and the policy   *)
(* network bodies, and clip_logits.                                        *)
(***************************************************************************)
EXTENDS Integers, Sequences, FiniteSets, TLC

VARIABLES
  heap,      \* Python heap of the presets: HParams objects and list objects
  calls,     \* history of preset calls: what each call returned
  nAssign,   \* number of caller-side mutations of returned objects so far
  logits,    \* clip_logits: the input tensor, flattened
  config,    \* clip_logits: the configuration object
  clipped,   \* clip_logits: the tensor returned
  pcClip,    \* clip_logits: "ready" before the call, "done" after it
  features,  \* RandomPolicy.body: the feature mapping passed in
  bodyOut,   \* RandomPolicy.body: what the call returned or raised
  pcBody,    \* RandomPolicy.body: "ready" before the call, "done" after it
  pyobjs,    \* environments: the environment objects and their wrappers
  fns,       \* environments: the functions the two factories returned
  envCalls,  \* environments: the calls of those functions, with their results
  varStore,  \* TensorFlow's variable store: the variables created, [name, out]
  opened,    \* TensorFlow's variable scope store: the scopes with a count > 0
  built,     \* the (scope, hparams, space) get_policy has built successfully
  lastPol,   \* the last call of get_policy or feed_forward_gaussian_fun
  nPol       \* number of such calls so far

presetVars == <<heap, calls, nAssign>>

clipVars == <<logits, config, clipped, pcClip>>

bodyVars == <<features, bodyOut, pcBody>>

envVars == <<pyobjs, fns, envCalls>>

policyVars == <<varStore, opened, built, lastPol, nPol>>

vars == <<presetVars, clipVars, bodyVars, envVars, policyVars>>

RECURSIVE RunStmts(_, _, _)
RECURSIVE RunPreset(_, _)

(***************************************************************************)
(* Bounds of the model.                                                    *)
(***************************************************************************)
\* preset calls in one behaviour
MaxCalls == 2
\* caller-side mutations (attribute assignments, list appends) in one behaviour
MaxAssign == 1
\* largest finite logit (the dtype's largest finite value)
MaxLogit == 2
\* elements of a logits tensor
MaxLen == 3
\* largest static dimension of an observation batch
MaxDim == 2
\* largest number of actions
MaxActions == 3
\* functions made by make_real_env_fn and make_simulated_env_fn
MaxFns == 2
\* calls of those functions
MaxEnvCalls == 2
\* calls of get_policy and feed_forward_gaussian_fun
MaxPolicyCalls == 2

(***************************************************************************)
(* Python values.  A value is [lit, chars, items]: lit is the text of a scalar    *)
(* literal, items the elements of a list display (a list display builds a  *)
(* new list object each time it is evaluated), chars the characters of a   *)
(* string that names a model in the registry.                              *)
(***************************************************************************)
Lit(s) == [lit |-> s, chars |-> <<>>, items |-> <<>>, isList |-> FALSE]

StrLit(cs) == [lit |-> "str", chars |-> cs, items |-> <<>>, isList |-> FALSE]

TupleLit(xs) == [lit |-> "tuple", chars |-> <<>>, items |-> xs, isList |-> FALSE]

ListLit(xs) == [lit |-> "list", chars |-> <<>>, items |-> xs, isList |-> TRUE]

Str_feed_forward_categorical_policy ==
  <<"f","e","e","d","_","f","o","r","w","a","r","d","_","c","a","t","e","g","o","r","i","c","a","l","_","p","o","l","i","c","y">>

Str_random_policy ==
  <<"r","a","n","d","o","m","_","p","o","l","i","c","y">>

Str_feed_forward_cnn_small_categorical_policy ==
  <<"f","e","e","d","_","f","o","r","w","a","r","d","_","c","n","n","_","s","m","a","l","l","_","c","a","t","e","g","o","r","i","c","a","l","_","p","o","l","i","c","y">>

Str_dense_bitwise_categorical_policy ==
  <<"d","e","n","s","e","_","b","i","t","w","i","s","e","_","c","a","t","e","g","o","r","i","c","a","l","_","p","o","l","i","c","y">>

(***************************************************************************)
(* Statements of a preset body.                                            *)
(***************************************************************************)
CallStmt(fn) == [op |-> "call", name |-> fn, val |-> Lit("None")]

NewStmt == [op |-> "new", name |-> "HParams", val |-> Lit("None")]

AddStmt(f, v) == [op |-> "add_hparam", name |-> f, val |-> v]

SetAttr(f, v) == [op |-> "setattr", name |-> f, val |-> v]

SetHparam(f, v) == [op |-> "set_hparam", name |-> f, val |-> v]

\* tf.contrib.training.HParams(**kwargs): a new object, then add_hparam per keyword
HParams(kw) == <<NewStmt>> \o [i \in 1..Len(kw) |-> AddStmt(kw[i][1], kw[i][2])]

(***************************************************************************)
(* The preset functions, statement by statement.                           *)
(***************************************************************************)
basic_params1 ==
  HParams(<< <<"batch_size", Lit("4096")>>,
             <<"dropout", Lit("0.2")>>,
             <<"clip_grad_norm", Lit("2.0")>>,
             <<"learning_rate_constant", Lit("1.0")>>,
             <<"learning_rate_schedule", Lit("'legacy'")>> >>)

ppo_base_v1 ==
  << CallStmt("basic_params1"),
     SetAttr("learning_rate_schedule", Lit("'constant'")),
     SetAttr("learning_rate_constant", Lit("1e-4")),
     SetAttr("clip_grad_norm", Lit("0.5")),
     AddStmt("lr_decay_in_final_epoch", Lit("False")),
     AddStmt("init_mean_factor", Lit("0.1")),
     AddStmt("init_logstd", Lit("0.1")),
     AddStmt("policy_layers", TupleLit(<<100, 100>>)),
     AddStmt("value_layers", TupleLit(<<100, 100>>)),
     AddStmt("clipping_coef", Lit("0.2")),
     AddStmt("gae_gamma", Lit("0.99")),
     AddStmt("gae_lambda", Lit("0.95")),
     AddStmt("entropy_loss_coef", Lit("0.01")),
     AddStmt("value_loss_coef", Lit("1")),
     AddStmt("optimization_epochs", Lit("15")),
     AddStmt("epoch_length", Lit("200")),
     AddStmt("epochs_num", Lit("2000")),
     AddStmt("eval_every_epochs", Lit("10")),
     AddStmt("save_models_every_epochs", Lit("30")),
     AddStmt("optimization_batch_size", Lit("50")),
     AddStmt("intrinsic_reward_scale", Lit("0.")),
     AddStmt("logits_clip", Lit("0.0")),
     AddStmt("dropout_ppo", Lit("0.1")),
     AddStmt("effective_num_agents", Lit("None")) >>

basic_policy_parameters ==
  HParams(<< <<"wrappers", Lit("None")>> >>)

ppo_discrete_action_base ==
  << CallStmt("ppo_base_v1"),
     AddStmt("policy_network", StrLit(Str_feed_forward_categorical_policy)) >>

discrete_random_action_base ==
  << CallStmt("basic_params1"),
     AddStmt("policy_network", StrLit(Str_random_policy)) >>

ppo_atari_base ==
  << CallStmt("ppo_discrete_action_base"),
     SetAttr("learning_rate_constant", Lit("1e-4")),
     SetAttr("epoch_length", Lit("200")),
     SetAttr("gae_gamma", Lit("0.985")),
     SetAttr("gae_lambda", Lit("0.985")),
     SetAttr("entropy_loss_coef", Lit("0.003")),
     SetAttr("value_loss_coef", Lit("1")),
     SetAttr("optimization_epochs", Lit("3")),
     SetAttr("epochs_num", Lit("1000")),
     SetAttr("policy_network", StrLit(Str_feed_forward_cnn_small_categorical_policy)),
     SetAttr("clipping_coef", Lit("0.2")),
     SetAttr("optimization_batch_size", Lit("20")),
     SetAttr("clip_grad_norm", Lit("0.5")) >>

ppo_original_params ==
  << CallStmt("ppo_atari_base"),
     SetAttr("learning_rate_constant", Lit("2.5e-4")),
     SetAttr("gae_gamma", Lit("0.99")),
     SetAttr("gae_lambda", Lit("0.95")),
     SetAttr("clipping_coef", Lit("0.1")),
     SetAttr("value_loss_coef", Lit("1")),
     SetAttr("entropy_loss_coef", Lit("0.01")),
     SetAttr("eval_every_epochs", Lit("200")),
     SetAttr("dropout_ppo", Lit("0.1")),
     SetAttr("epoch_length", Lit("50")),
     SetAttr("optimization_batch_size", Lit("20")) >>

\* the bug a reader expects here: the override written to policy_network
ppo_pong_ae_base_policy_network ==
  << CallStmt("ppo_original_params"),
     SetAttr("learning_rate_constant", Lit("1e-4")),
     SetAttr("policy_network", StrLit(Str_dense_bitwise_categorical_policy)) >>

ppo_pong_ae_base ==
  << CallStmt("ppo_original_params"),
     SetAttr("learning_rate_constant", Lit("1e-4")),
     SetAttr("network", StrLit(Str_dense_bitwise_categorical_policy)) >>

dqn_atari_base ==
  HParams(<< <<"agent_gamma", Lit("0.99")>>,
             <<"agent_update_horizon", Lit("1")>>,
             <<"agent_min_replay_history", Lit("20000")>>,
             <<"agent_update_period", Lit("4")>>,
             <<"agent_target_update_period", Lit("8000")>>,
             <<"agent_epsilon_train", Lit("0.01")>>,
             <<"agent_epsilon_eval", Lit("0.001")>>,
             <<"agent_epsilon_decay_period", Lit("250000")>>,
             <<"agent_generates_trainable_dones", Lit("True")>>,
             <<"optimizer_class", Lit("'RMSProp'")>>,
             <<"optimizer_learning_rate", Lit("0.00025")>>,
             <<"optimizer_decay", Lit("0.95")>>,
             <<"optimizer_momentum", Lit("0.0")>>,
             <<"optimizer_epsilon", Lit("0.00001")>>,
             <<"optimizer_centered", Lit("True")>>,
             <<"replay_buffer_replay_capacity", Lit("1000000")>>,
             <<"replay_buffer_batch_size", Lit("32")>>,
             <<"time_limit", Lit("27000")>>,
             <<"save_every_steps", Lit("50000")>>,
             <<"num_frames", Lit("20000000")>> >>)

dqn_original_params ==
  << CallStmt("dqn_atari_base"),
     SetHparam("num_frames", Lit("1000000")) >>

rlmf_original ==
  HParams(<< <<"game", Lit("'pong'")>>,
             <<"base_algo", Lit("'ppo'")>>,
             <<"base_algo_params", Lit("'ppo_original_params'")>>,
             <<"batch_size", Lit("16")>>,
             <<"eval_batch_size", Lit("2")>>,
             <<"frame_stack_size", Lit("4")>>,
             <<"eval_sampling_temps",
               ListLit(<<"0.0", "0.2", "0.5", "0.8", "1.0", "2.0">>)>>,
             <<"eval_max_num_noops", Lit("8")>>,
             <<"resize_height_factor", Lit("2")>>,
             <<"resize_width_factor", Lit("2")>>,
             <<"grayscale", Lit("0")>>,
             <<"rl_env_max_episode_steps", Lit("-1")>> >>)

rlmf_base ==
  << CallStmt("rlmf_original"),
     AddStmt("ppo_epochs_num", Lit("3000")),
     AddStmt("ppo_eval_every_epochs", Lit("100")) >>

rlmf_tiny ==
  << CallStmt("rlmf_base"),
     SetAttr("ppo_epochs_num", Lit("100")),
     SetAttr("ppo_eval_every_epochs", Lit("10")) >>

\* the functions decorated with @registry.register_hparams
Presets ==
  { "ppo_base_v1", "basic_policy_parameters", "ppo_discrete_action_base",
    "discrete_random_action_base", "ppo_atari_base", "ppo_original_params",
    "ppo_pong_ae_base", "dqn_atari_base", "dqn_original_params",
    "rlmf_original", "rlmf_base", "rlmf_tiny" }

Body(P) ==
  CASE P = "basic_params1" -> basic_params1
    [] P = "ppo_base_v1" -> ppo_base_v1
    [] P = "basic_policy_parameters" -> basic_policy_parameters
    [] P = "ppo_discrete_action_base" -> ppo_discrete_action_base
    [] P = "discrete_random_action_base" -> discrete_random_action_base
    [] P = "ppo_atari_base" -> ppo_atari_base
    [] P = "ppo_original_params" -> ppo_original_params
    [] P = "ppo_pong_ae_base" -> ppo_pong_ae_base
    [] P = "dqn_atari_base" -> dqn_atari_base
    [] P = "dqn_original_params" -> dqn_original_params
    [] P = "rlmf_original" -> rlmf_original
    [] P = "rlmf_base" -> rlmf_base
    [] P = "rlmf_tiny" -> rlmf_tiny

(***************************************************************************)
(* The interpreter of preset bodies over the heap.                         *)
(*   heap.objs  : the HParams objects, each [attrs, hp]: its attributes    *)
(*                and the names registered as hyperparameters              *)
(*   heap.lists : the list objects                                         *)
(* An attribute holds [lit, chars, items, ref]; ref > 0 points into        *)
(* heap.lists, and items are the elements of a tuple.                      *)
(***************************************************************************)
NoAttrs == [f \in {} |-> 0]

EmptyHeap == [objs |-> <<>>, lists |-> <<>>]

\* evaluation of the right-hand side of a statement
EvalExpr(v, h) ==
  IF v.isList
    THEN [heap |-> [h EXCEPT !.lists = Append(@, v.items)],
          val |-> [lit |-> "list", chars |-> <<>>, items |-> <<>>,
                   ref |-> Len(h.lists) + 1]]
    ELSE [heap |-> h, val |-> [lit |-> v.lit, chars |-> v.chars,
                               items |-> v.items, ref |-> 0]]

\* The interpreter state st is [heap, obj, attrs, hp, err]: obj is the object
\* the local variable hparams is bound to, attrs and hp its contents while the
\* body runs; they are written to heap.objs[obj] when the function returns.

\* HParams.add_hparam(name, value): refuses a name that is already an
\* attribute holding something other than None
add_hparam(name, v, st) ==
  LET e == EvalExpr(v, st.heap)
  IN IF name \in DOMAIN st.attrs /\ st.attrs[name].lit # "None"
       THEN [st EXCEPT !.err = "ValueError"]
       ELSE [st EXCEPT !.heap = e.heap,
                       !.attrs = (name :> e.val) @@ @,
                       !.hp = @ \cup {name}]

\* hparams.name = value: a plain attribute assignment
setattr(name, v, st) ==
  LET e == EvalExpr(v, st.heap)
  IN IF name \in DOMAIN st.attrs
       THEN [st EXCEPT !.heap = e.heap, !.attrs[name] = e.val]
       ELSE [st EXCEPT !.heap = e.heap, !.attrs = (name :> e.val) @@ @]

\* HParams.set_hparam(name, value): the name must be a hyperparameter
set_hparam(name, v, st) ==
  IF name \in st.hp
    THEN setattr(name, v, st)
    ELSE [st EXCEPT !.err = "KeyError"]

\* hparams = fn(): the object the called preset returns
CallFn(fn, st) ==
  LET r == RunPreset(fn, st.heap)
  IN [heap |-> r.heap, obj |-> r.obj, err |-> r.err,
      attrs |-> IF r.obj = 0 THEN NoAttrs ELSE r.heap.objs[r.obj].attrs,
      hp |-> IF r.obj = 0 THEN {} ELSE r.heap.objs[r.obj].hp]

ExecStmt(s, st) ==
  CASE s.op = "call" -> CallFn(s.name, st)
    [] s.op = "new" ->
         [st EXCEPT !.heap.objs = Append(@, [attrs |-> NoAttrs, hp |-> {}]),
                    !.obj = Len(st.heap.objs) + 1]
    [] s.op = "add_hparam" -> add_hparam(s.name, s.val, st)
    [] s.op = "setattr" -> setattr(s.name, s.val, st)
    [] s.op = "set_hparam" -> set_hparam(s.name, s.val, st)

RunStmts(stmts, i, st) ==
  IF i > Len(stmts) \/ st.err # "none"
    THEN st
    ELSE RunStmts(stmts, i + 1, ExecStmt(stmts[i], st))

\* return hparams
Return(st) ==
  [heap |-> IF st.obj = 0 THEN st.heap
            ELSE [st.heap EXCEPT !.objs[st.obj] = [attrs |-> st.attrs, hp |-> st.hp]],
   obj |-> st.obj, err |-> st.err]

Entry(h) == [heap |-> h, obj |-> 0, attrs |-> NoAttrs, hp |-> {}, err |-> "none"]

\* a preset kept in a module-level object and handed out again
RunPresetCached(P, h) ==
  IF \E i \in DOMAIN calls : calls[i].preset = P
    THEN LET i == CHOOSE j \in DOMAIN calls : calls[j].preset = P
         IN [heap |-> h, obj |-> calls[i].obj, err |-> "none"]
    ELSE Return(RunStmts(Body(P), 1, Entry(h)))

\* one call of a preset function: [heap, obj, err], obj the object returned
RunPreset(P, h) == Return(RunStmts(Body(P), 1, Entry(h)))

\* the field values of object o, lists by content
Deep(h, o) ==
  IF o = 0 THEN NoAttrs
  ELSE [f \in DOMAIN h.objs[o].attrs |->
          LET v == h.objs[o].attrs[f]
          IN [lit |-> v.lit, chars |-> v.chars,
              items |-> IF v.ref = 0 THEN v.items ELSE h.lists[v.ref]]]

\* the list objects object o points to
ListsOf(h, o) == { h.objs[o].attrs[f].ref : f \in DOMAIN h.objs[o].attrs } \ {0}

(***************************************************************************)
(* Operations on the presets.                                              *)
(***************************************************************************)
\* the fields a caller assigns to
AssignFields ==
  { "policy_network", "eval_sampling_temps" }

Returned == { calls[i].obj : i \in DOMAIN calls } \ {0}




PresetInit ==
  /\ heap = EmptyHeap
  /\ calls = <<>>
  /\ nAssign = 0

\* hparams = P()
CallPreset(P) ==
  /\ Len(calls) < MaxCalls
  /\ LET r == RunPreset(P, heap)
     IN /\ heap' = r.heap
        /\ calls' = Append(calls, [preset |-> P, obj |-> r.obj, err |-> r.err,
                                   ret |-> Deep(r.heap, r.obj)])
  /\ UNCHANGED <<nAssign, clipVars, bodyVars, envVars, policyVars>>

\* the caller assigns a field of an object a preset returned
AssignField(o, f) ==
  /\ nAssign < MaxAssign
  /\ o \in Returned
  /\ heap' = [heap EXCEPT !.objs[o].attrs =
                (f :> [lit |-> "'changed'", chars |-> <<>>, items |-> <<>>, ref |-> 0]) @@ @]
  /\ nAssign' = nAssign + 1
  /\ UNCHANGED <<calls, clipVars, bodyVars, envVars, policyVars>>

\* the caller appends to a list held by an object a preset returned
AppendToList(o, f) ==
  /\ nAssign < MaxAssign
  /\ o \in Returned
  /\ f \in DOMAIN heap.objs[o].attrs
  /\ heap.objs[o].attrs[f].ref > 0
  /\ heap' = [heap EXCEPT !.lists[heap.objs[o].attrs[f].ref] = Append(@, "9.9")]
  /\ nAssign' = nAssign + 1
  /\ UNCHANGED <<calls, clipVars, bodyVars, envVars, policyVars>>

PresetNext ==
  \/ \E P \in Presets : CallPreset(P)
  \/ \E o \in Returned, f \in AssignFields : AssignField(o, f)
  \/ \E o \in Returned, f \in AssignFields : AppendToList(o, f)

(***************************************************************************)
(* Properties of the presets.                                              *)
(***************************************************************************)
\* the fields the body of P assigns itself (add_hparam, attribute
\* assignment, set_hparam)
Assigned(P) ==
  { Body(P)[k].name : k \in { j \in DOMAIN Body(P) :
      Body(P)[j].op \in {"add_hparam", "setattr", "set_hparam"} } }

\* P starts by calling another preset function
Derived(P) == Body(P)[1].op = "call"

BaseOf(P) == Body(P)[1].name

\* C1: for every preset P that is built by calling a base preset B, the object
\* a call of P returned holds, in every field of the object a call of B
\* returned that the body of P does not assign, exactly B's value;
\* ppo_pong_ae_base assigns only learning_rate_constant and network, and
\* so keeps the policy_network of ppo_original_params.
C1_InheritanceCopy ==
  \A i, j \in DOMAIN calls :
    LET P == calls[i].preset
        B == calls[j].preset
    IN /\ (Derived(P) /\ B = BaseOf(P)) =>
            \A f \in DOMAIN calls[j].ret \ Assigned(P) :
              f \in DOMAIN calls[i].ret /\ calls[i].ret[f] = calls[j].ret[f]
       /\ (P = "ppo_pong_ae_base" /\ B = "ppo_original_params") =>
            /\ Assigned(P) = {"learning_rate_constant", "network"}
            /\ calls[i].ret["policy_network"] = calls[j].ret["policy_network"]

C1_Witness ==
  \E i, j \in DOMAIN calls :
    /\ calls[i].preset = "ppo_pong_ae_base"
    /\ calls[j].preset = "ppo_original_params"
    /\ calls[i].ret["policy_network"].chars =
         Str_feed_forward_cnn_small_categorical_policy
    /\ calls[i].ret["network"].chars = Str_dense_bitwise_categorical_policy
    /\ "network" \notin DOMAIN calls[j].ret
    /\ calls[i].ret["learning_rate_constant"].lit = "1e-4"
    /\ calls[j].ret["learning_rate_constant"].lit = "2.5e-4"

\* C8: the objects the preset calls returned are pairwise distinct and share
\* no list object, and two calls of the same preset returned the same field
\* values, whatever calls and whatever assignments to (or appends to the
\* lists of) returned objects happened before or between them.
C8_FreshObjects ==
  \A i, j \in DOMAIN calls :
    i # j =>
      /\ calls[i].obj # calls[j].obj
      /\ ListsOf(heap, calls[i].obj) \cap ListsOf(heap, calls[j].obj) = {}
      /\ calls[i].preset = calls[j].preset => calls[i].ret = calls[j].ret

C8_Witness ==
  /\ Len(calls) >= 2
  /\ calls[1].preset = "rlmf_tiny"
  /\ calls[2].preset = "rlmf_tiny"
  /\ calls[2].ret = calls[1].ret
  /\ Len(heap.lists[1]) = 7
  /\ Deep(heap, calls[1].obj)["eval_sampling_temps"].items = heap.lists[1]
  /\ Len(Deep(heap, calls[2].obj)["eval_sampling_temps"].items) = 6

(***************************************************************************)
(* clip_logits.  A tensor is the sequence of its elements; a finite float  *)
(* is an integer of -MaxLogit..MaxLogit and Inf stands for +infinity, the  *)
(* result of a subtraction that overflows.                                 *)
(***************************************************************************)
Inf == MaxLogit + 1

Floats == (0 - MaxLogit)..MaxLogit

RECURSIVE reduce_min(_)
\* tf.reduce_min: the smallest element, +infinity for an empty tensor
reduce_min(t) ==
  IF t = <<>> THEN Inf
  ELSE LET m == reduce_min(Tail(t)) IN IF Head(t) < m THEN Head(t) ELSE m

\* float subtraction x - y
FSub(x, y) == IF x - y > MaxLogit THEN Inf ELSE x - y

\* tf.minimum(t, c), elementwise
minimum(t, c) == [k \in DOMAIN t |-> IF t[k] < c THEN t[k] ELSE c]

\* getattr(config, "logits_clip", 0.)
GetLogitsClip(cfg) == IF cfg.has THEN cfg.logits_clip ELSE 0

\* the guard written logits_clip >= 0
clip_logits_ge(t, cfg) ==
  LET logits_clip == GetLogitsClip(cfg)
  IN IF logits_clip >= 0
       THEN LET min_logit == reduce_min(t)
            IN minimum([k \in DOMAIN t |-> FSub(t[k], min_logit)], logits_clip)
       ELSE t

\* the minimum not subtracted
clip_logits_nosub(t, cfg) ==
  LET logits_clip == GetLogitsClip(cfg)
  IN IF logits_clip > 0 THEN minimum(t, logits_clip) ELSE t

clip_logits(t, cfg) ==
  LET logits_clip == GetLogitsClip(cfg)
  IN IF logits_clip > 0
       THEN LET min_logit == reduce_min(t)
            IN minimum([k \in DOMAIN t |-> FSub(t[k], min_logit)], logits_clip)
       ELSE t

Tensors == UNION { [1..n -> Floats] : n \in 0..MaxLen }

Configs ==
  { [has |-> FALSE, logits_clip |-> 0] } \cup
  { [has |-> TRUE, logits_clip |-> c] : c \in Floats }

ClipInit ==
  /\ logits \in Tensors
  /\ config \in Configs
  /\ clipped = <<>>
  /\ pcClip = "ready"

ClipIdle ==
  /\ logits = <<>>
  /\ config = [has |-> FALSE, logits_clip |-> 0]
  /\ clipped = <<>>
  /\ pcClip = "idle"

\* logits = clip_logits(logits, self.hparams)
ClipLogits ==
  /\ pcClip = "ready"
  /\ clipped' = clip_logits(logits, config)
  /\ pcClip' = "done"
  /\ UNCHANGED <<logits, config, presetVars, bodyVars, envVars, policyVars>>

(***************************************************************************)
(* RandomPolicy.body.  A static shape is a sequence of dimensions, Unknown *)
(* for a dimension known only when the graph runs; a constant tensor is    *)
(* the function from its index tuples to its entries; the float 1/N is the *)
(* pair <<1, N>>.                                                          *)
(***************************************************************************)
Unknown == 0 - 1

Dims == 0..MaxDim

\* the index tuples of a tensor of the given fully known shape
Indices(shape) ==
  IF Len(shape) = 2
    THEN (1..shape[1]) \X (1..shape[2])
    ELSE (1..shape[1]) \X (1..shape[2]) \X (1..shape[3])

\* tf.constant(value, shape=shape), tf.zeros(shape): every entry the value
Filled(shape, value) == [idx \in Indices(shape) |-> value]

\* the number of actions read from the second dimension
get_num_actions_dim2(f) == f.target_action[2]

\* DiscretePolicyBase._get_num_actions(features)
get_num_actions(f) == f.target_action[3]

\* RandomPolicy.body(features): the two tensors, or the exception raised
RandomPolicy_body(f) ==
  LET obs_shape == f.inputs.shape
      num_actions == get_num_actions(f)
      lshape == SubSeq(obs_shape, 1, 2) \o <<num_actions>>
      vshape == SubSeq(obs_shape, 1, 2)
  IN IF num_actions = 0
       THEN [raised |-> "ZeroDivisionError", target_action |-> <<>>,
             target_value |-> <<>>, lshape |-> <<>>, vshape |-> <<>>]
     ELSE IF Unknown \in {obs_shape[1], obs_shape[2]}
       THEN [raised |-> "TypeError", target_action |-> <<>>,
             target_value |-> <<>>, lshape |-> <<>>, vshape |-> <<>>]
     ELSE [raised |-> "none",
           target_action |-> Filled(lshape, <<1, num_actions>>),
           target_value |-> Filled(vshape, <<0, 1>>),
           lshape |-> lshape, vshape |-> vshape]

ObsShapes ==
  { <<b, t>> : b \in Dims \cup {Unknown}, t \in Dims \cup {Unknown} } \cup
  { <<b, t, d>> : b \in Dims \cup {Unknown}, t \in Dims \cup {Unknown}, d \in {1, MaxDim} }

BodyInit ==
  /\ features \in
       [inputs : [shape : ObsShapes, fill : {0, 255}],
        target_action : { <<b, t, n>> : b \in {1, MaxDim}, t \in {1, MaxDim},
                                       n \in 0..MaxActions }]
  /\ bodyOut = [raised |-> "none", target_action |-> <<>>, target_value |-> <<>>,
                lshape |-> <<>>, vshape |-> <<>>]
  /\ pcBody = "ready"

BodyIdle ==
  /\ features = [inputs |-> [shape |-> <<0, 0>>, fill |-> 0],
                 target_action |-> <<0, 0, 0>>]
  /\ bodyOut = [raised |-> "none", target_action |-> <<>>, target_value |-> <<>>,
                lshape |-> <<>>, vshape |-> <<>>]
  /\ pcBody = "idle"

\* model.body(features) of a RandomPolicy
CallBody ==
  /\ pcBody = "ready"
  /\ bodyOut' = RandomPolicy_body(features)
  /\ pcBody' = "done"
  /\ UNCHANGED <<features, presetVars, clipVars, envVars, policyVars>>

(***************************************************************************)
(* The environment factory functions.  pyobjs is the heap of environment   *)
(* objects: [kind, wraps, kwargs]; the first two are real environments.    *)
(* A function returned by a factory is a closure: [kind, arg, env,         *)
(* env_kwargs], arg what the factory was called with, env and env_kwargs   *)
(* the closure's cells.                                                    *)
(***************************************************************************)
NoKwargs == [k \in {} |-> 0]

RealEnv == [kind |-> "env", wraps |-> 0, kwargs |-> NoKwargs]

RealEnvs == {1, 2}

\* keyword names a caller may pass, and the values it passes
Keywords == {"batch_size", "model_name", "sim_video_dir", "bogus"}

KwargSets == UNION { [ks -> {"v"}] : ks \in SUBSET Keywords }

\* the keyword contract of both simulated environment classes
RequiredKw == {"batch_size", "model_name"}

AcceptedKw == {"batch_size", "model_name", "sim_video_dir"}

\* class_(**kwargs) for SimulatedBatchEnv and SimulatedBatchGymEnv
Construct(class_, kwargs, objs) ==
  IF RequiredKw \ DOMAIN kwargs # {}
    THEN [pyobjs |-> objs, result |-> 0,
          raised |-> [type |-> "TypeError", what |-> "missing",
                      names |-> RequiredKw \ DOMAIN kwargs]]
  ELSE IF DOMAIN kwargs \ AcceptedKw # {}
    THEN [pyobjs |-> objs, result |-> 0,
          raised |-> [type |-> "TypeError", what |-> "unexpected",
                      names |-> DOMAIN kwargs \ AcceptedKw]]
  ELSE [pyobjs |-> Append(objs, [kind |-> class_, wraps |-> 0, kwargs |-> kwargs]),
        result |-> Len(objs) + 1,
        raised |-> [type |-> "none", what |-> "none", names |-> {}]]

NotRaised == [type |-> "none", what |-> "none", names |-> {}]

\* PyFuncBatchEnv(env)
PyFuncBatchEnv(env, objs) ==
  [pyobjs |-> Append(objs, [kind |-> "PyFuncBatchEnv", wraps |-> env,
                            kwargs |-> NoKwargs]),
   result |-> Len(objs) + 1]

\* the wrapper kept in the closure and returned from then on
real_env_fn_rebind(c, in_graph, objs) ==
  IF in_graph
    THEN LET w == PyFuncBatchEnv(c.env, objs)
         IN [pyobjs |-> w.pyobjs, fn |-> [c EXCEPT !.env = w.result],
             result |-> w.result, raised |-> NotRaised,
             cls |-> "PyFuncBatchEnv", passed |-> NoKwargs]
    ELSE [pyobjs |-> objs, fn |-> c, result |-> c.env, raised |-> NotRaised,
          cls |-> "none", passed |-> NoKwargs]

\* lambda in_graph: PyFuncBatchEnv(env) if in_graph else env
real_env_fn(c, in_graph, objs) ==
  IF in_graph
    THEN LET w == PyFuncBatchEnv(c.env, objs)
         IN [pyobjs |-> w.pyobjs, fn |-> c, result |-> w.result,
             raised |-> NotRaised, cls |-> "PyFuncBatchEnv", passed |-> NoKwargs]
    ELSE [pyobjs |-> objs, fn |-> c, result |-> c.env, raised |-> NotRaised,
          cls |-> "none", passed |-> NoKwargs]

\* the standalone variant built without sim_video_dir
env_fn_drop(c, in_graph, objs) ==
  LET class_ == IF in_graph THEN "SimulatedBatchEnv" ELSE "SimulatedBatchGymEnv"
      kw == IF in_graph THEN c.env_kwargs
            ELSE [k \in DOMAIN c.env_kwargs \ {"sim_video_dir"} |-> c.env_kwargs[k]]
      r == Construct(class_, kw, objs)
  IN [pyobjs |-> r.pyobjs, fn |-> c, result |-> r.result, raised |-> r.raised,
      cls |-> class_, passed |-> kw]

\* env_fn(in_graph) of make_simulated_env_fn
env_fn(c, in_graph, objs) ==
  LET class_ == IF in_graph THEN "SimulatedBatchEnv" ELSE "SimulatedBatchGymEnv"
      r == Construct(class_, c.env_kwargs, objs)
  IN [pyobjs |-> r.pyobjs, fn |-> c, result |-> r.result, raised |-> r.raised,
      cls |-> class_, passed |-> c.env_kwargs]

EnvInit ==
  /\ pyobjs = <<RealEnv, RealEnv>>
  /\ fns = <<>>
  /\ envCalls = <<>>

\* f = make_real_env_fn(env)
make_real_env_fn(env) ==
  /\ Len(fns) < MaxFns
  /\ fns' = Append(fns, [kind |-> "real", arg |-> env, env |-> env,
                         kwargs_arg |-> NoKwargs, env_kwargs |-> NoKwargs])
  /\ UNCHANGED <<pyobjs, envCalls, presetVars, clipVars, bodyVars, policyVars>>

\* g = make_simulated_env_fn(**env_kwargs)
make_simulated_env_fn(env_kwargs) ==
  /\ Len(fns) < MaxFns
  /\ fns' = Append(fns, [kind |-> "sim", arg |-> 0, env |-> 0,
                         kwargs_arg |-> env_kwargs, env_kwargs |-> env_kwargs])
  /\ UNCHANGED <<pyobjs, envCalls, presetVars, clipVars, bodyVars, policyVars>>

\* fns[k](in_graph)
CallEnvFn(k, in_graph) ==
  /\ Len(envCalls) < MaxEnvCalls
  /\ LET r == IF fns[k].kind = "real"
                THEN real_env_fn(fns[k], in_graph, pyobjs)
                ELSE env_fn(fns[k], in_graph, pyobjs)
     IN /\ pyobjs' = r.pyobjs
        /\ fns' = [fns EXCEPT ![k] = r.fn]
        /\ envCalls' = Append(envCalls,
             [fn |-> k, in_graph |-> in_graph, result |-> r.result,
              raised |-> r.raised, cls |-> r.cls, passed |-> r.passed])
  /\ UNCHANGED <<presetVars, clipVars, bodyVars, policyVars>>

EnvNext ==
  \/ \E e \in RealEnvs : make_real_env_fn(e)
  \/ \E kw \in KwargSets : make_simulated_env_fn(kw)
  \/ \E k \in DOMAIN fns, g \in BOOLEAN : CallEnvFn(k, g)

EnvIdle ==
  /\ pyobjs = <<>>
  /\ fns = <<>>
  /\ envCalls = <<>>


(***************************************************************************)
(* The model registry.  A class is [cls, name]: name holds the characters  *)
(* of its __name__; register_model files it under the snake_case form.     *)
(***************************************************************************)
FeedForwardCategoricalPolicy ==
  [cls |-> "FeedForwardCategoricalPolicy",
   name |-> <<"F","e","e","d","F","o","r","w","a","r","d","C","a","t","e","g","o","r","i","c","a","l","P","o","l","i","c","y">>]

FeedForwardCnnSmallCategoricalPolicy ==
  [cls |-> "FeedForwardCnnSmallCategoricalPolicy",
   name |-> <<"F","e","e","d","F","o","r","w","a","r","d","C","n","n","S","m","a","l","l","C","a","t","e","g","o","r","i","c","a","l","P","o","l","i","c","y">>]

FeedForwardCnnSmallCategoricalPolicyNew ==
  [cls |-> "FeedForwardCnnSmallCategoricalPolicyNew",
   name |-> <<"F","e","e","d","F","o","r","w","a","r","d","C","n","n","S","m","a","l","l","C","a","t","e","g","o","r","i","c","a","l","P","o","l","i","c","y","N","e","w">>]

DenseBitwiseCategoricalPolicy ==
  [cls |-> "DenseBitwiseCategoricalPolicy",
   name |-> <<"D","e","n","s","e","B","i","t","w","i","s","e","C","a","t","e","g","o","r","i","c","a","l","P","o","l","i","c","y">>]

RandomPolicy ==
  [cls |-> "RandomPolicy",
   name |-> <<"R","a","n","d","o","m","P","o","l","i","c","y">>]

LowerOf ==
  ("A" :> "a") @@ ("B" :> "b") @@ ("C" :> "c") @@ ("D" :> "d") @@ ("E" :> "e") @@ ("F" :> "f") @@
  ("G" :> "g") @@ ("H" :> "h") @@ ("I" :> "i") @@ ("J" :> "j") @@ ("K" :> "k") @@ ("L" :> "l") @@
  ("M" :> "m") @@ ("N" :> "n") @@ ("O" :> "o") @@ ("P" :> "p") @@ ("Q" :> "q") @@ ("R" :> "r") @@
  ("S" :> "s") @@ ("T" :> "t") @@ ("U" :> "u") @@ ("V" :> "v") @@ ("W" :> "w") @@ ("X" :> "x") @@
  ("Y" :> "y") @@ ("Z" :> "z")

IsUpper(c) == c \in DOMAIN LowerOf

\* [a-z0-9]
IsLowerOrDigit(c) ==
  \/ c \in { LowerOf[u] : u \in DOMAIN LowerOf }
  \/ c \in {"0", "1", "2", "3", "4", "5", "6", "7", "8", "9"}

RECURSIVE SnakeFrom(_, _)
\* camel case to snake case: an underscore before every capital that follows
\* a lower-case letter or digit, or that follows any character and is itself
\* followed by a lower-case letter or digit; then lower case
SnakeFrom(name, i) ==
  IF i > Len(name) THEN <<>>
  ELSE LET c == name[i]
           cut == /\ i > 1
                  /\ IsUpper(c)
                  /\ \/ IsLowerOrDigit(name[i - 1])
                     \/ i < Len(name) /\ IsLowerOrDigit(name[i + 1])
       IN (IF cut THEN <<"_">> ELSE <<>>)
            \o <<IF IsUpper(c) THEN LowerOf[c] ELSE c>>
            \o SnakeFrom(name, i + 1)

\* registry.default_name(class)
default_name(class) == SnakeFrom(class.name, 1)

\* RandomPolicy left without its decorator
RegisteredModels_without_random ==
  { FeedForwardCategoricalPolicy, FeedForwardCnnSmallCategoricalPolicy,
    FeedForwardCnnSmallCategoricalPolicyNew, DenseBitwiseCategoricalPolicy }

\* the classes decorated with @registry.register_model
RegisteredModels ==
  { FeedForwardCategoricalPolicy, FeedForwardCnnSmallCategoricalPolicy,
    FeedForwardCnnSmallCategoricalPolicyNew, DenseBitwiseCategoricalPolicy,
    RandomPolicy }

RECURSIVE Register(_)
\* register_model applied to each class in turn
Register(S) ==
  IF S = {} THEN <<>>
  ELSE LET c == CHOOSE x \in S : TRUE
       IN (default_name(c) :> c) @@ Register(S \ {c})

\* the registry's table of models, by name
Models == Register(RegisteredModels)

\* registry.model(name)
registry_model(name) ==
  IF name \in DOMAIN Models
    THEN [raised |-> "none", class |-> Models[name]]
    ELSE [raised |-> "LookupError", class |-> RandomPolicy]

(***************************************************************************)
(* TensorFlow variable scopes and the variable store.  A scope path is a   *)
(* sequence of <<name, k>>, which stands for name when k = 0 and for       *)
(* name_k otherwise; a variable is [name, out]: its full path and the      *)
(* size of its last dimension.  A network body is the sequence of the      *)
(* scopes it enters and the layers it builds.                              *)
(***************************************************************************)
Enter(name) == [op |-> "enter", name |-> name, vars |-> <<>>, out |-> 0]

Exit == [op |-> "exit", name |-> "", vars |-> <<>>, out |-> 0]

\* tf.contrib.layers.fully_connected(x, out, ...)
FC(out) ==
  [op |-> "default_layer", name |-> "fully_connected",
   vars |-> <<"weights", "biases">>, out |-> out]

\* tf.contrib.layers.conv2d(x, out, ...)
Conv(out) ==
  [op |-> "default_layer", name |-> "Conv",
   vars |-> <<"weights", "biases">>, out |-> out]

\* tf.layers.conv2d(x, out, ..., name=name), tf.layers.dense(x, out, name=name)
Named(name, out) ==
  [op |-> "named_layer", name |-> name, vars |-> <<"kernel", "bias">>, out |-> out]

\* tf.get_variable(name, ...)
GetVar(name) == [op |-> "get_variable", name |-> name, vars |-> <<name>>, out |-> 0]

\* for size in layers: fully_connected(x, size, tf.nn.relu)
Stack(layers) == [i \in 1..Len(layers) |-> FC(layers[i])]

FeedForwardCategoricalPolicy_ops(hparams, n) ==
  <<Enter("policy")>> \o Stack(hparams["policy_layers"].items) \o <<FC(n), Exit>>
    \o <<Enter("value")>> \o Stack(hparams["value_layers"].items) \o <<FC(1), Exit>>

FeedForwardCnnSmallCategoricalPolicy_ops(hparams, n) ==
  <<Enter("feed_forward_cnn_small"), Conv(32), Conv(32), FC(128), FC(n), FC(1), Exit>>

FeedForwardCnnSmallCategoricalPolicyNew_ops(hparams, n) ==
  <<Enter("feed_forward_cnn_small"), Named("conv1", 32), Named("conv2", 64),
    Named("conv3", 128), Named("dense1", 128), Named("dense2", n),
    Named("value", 1), Exit>>

DenseBitwiseCategoricalPolicy_ops(hparams, n) ==
  <<Enter("dense_bitwise"), Named("int_to_bit_embed", 32), FC(256), FC(128),
    FC(n), FC(1), Exit>>

RandomPolicy_ops(hparams, n) == <<GetVar("dummy_var")>>

\* the body method of a registered class
ModelOps(class, hparams, n) ==
  CASE class = FeedForwardCategoricalPolicy ->
         FeedForwardCategoricalPolicy_ops(hparams, n)
    [] class = FeedForwardCnnSmallCategoricalPolicy ->
         FeedForwardCnnSmallCategoricalPolicy_ops(hparams, n)
    [] class = FeedForwardCnnSmallCategoricalPolicyNew ->
         FeedForwardCnnSmallCategoricalPolicyNew_ops(hparams, n)
    [] class = DenseBitwiseCategoricalPolicy ->
         DenseBitwiseCategoricalPolicy_ops(hparams, n)
    [] class = RandomPolicy -> RandomPolicy_ops(hparams, n)

\* q lies strictly below p
Below(p, q) == Len(q) > Len(p) /\ SubSeq(q, 1, Len(p)) = p

\* _VariableScopeStore.close_variable_subscopes(p)
close_variable_subscopes(op, p) == { q \in op : ~Below(p, q) }

\* _get_unique_variable_scope(prefix) in the scope path
Unique(op, path, prefix) ==
  IF Append(path, <<prefix, 0>>) \notin op THEN 0
  ELSE CHOOSE k \in 1..(Cardinality(op) + 1) :
         /\ Append(path, <<prefix, k>>) \notin op
         /\ \A j \in 1..(k - 1) : Append(path, <<prefix, j>>) \in op

NoError == [type |-> "none", msg |-> "none"]

\* tf.get_variable(name, shape) in scope st.path under st.reuse
get_variable(st, name, out) ==
  LET full == Append(st.path, <<name, 0>>)
      found == { v \in st.store : v.name = full }
  IN IF found = {}
       THEN [st EXCEPT !.store = @ \cup {[name |-> full, out |-> out]},
                       !.created = @ \cup {full}]
     ELSE IF st.reuse # "AUTO_REUSE"
       THEN [st EXCEPT !.raised = [type |-> "ValueError", msg |-> "already exists"]]
     ELSE IF \E v \in found : v.out # out
       THEN [st EXCEPT !.raised = [type |-> "ValueError", msg |-> "shape"]]
     ELSE st

\* a layer: its scope opened, its variables fetched in turn, its scope left
Layer(st, p, names, out) ==
  LET st1 == [st EXCEPT !.path = p, !.opened = @ \cup {p}]
      st2 == get_variable(st1, names[1], out)
      st3 == IF st2.raised = NoError /\ Len(names) > 1
               THEN get_variable(st2, names[2], out) ELSE st2
  IN [st3 EXCEPT !.path = st.path,
                 !.opened = close_variable_subscopes(@, p)]

ExecOp(o, st) ==
  CASE o.op = "enter" ->
         [st EXCEPT !.path = Append(@, <<o.name, 0>>),
                    !.opened = @ \cup {Append(st.path, <<o.name, 0>>)}]
    [] o.op = "exit" ->
         [st EXCEPT !.path = SubSeq(@, 1, Len(@) - 1),
                    !.opened = close_variable_subscopes(@, st.path)]
    [] o.op = "default_layer" ->
         Layer(st, Append(st.path, <<o.name, Unique(st.opened, st.path, o.name)>>),
               o.vars, o.out)
    [] o.op = "named_layer" ->
         Layer(st, Append(st.path, <<o.name, 0>>), o.vars, o.out)
    [] o.op = "get_variable" -> get_variable(st, o.name, o.out)

RECURSIVE RunOps(_, _, _)
RunOps(ops, i, st) ==
  IF i > Len(ops) \/ st.raised # NoError
    THEN st
    ELSE RunOps(ops, i + 1, ExecOp(ops[i], st))

\* model(features): the scope named after the model (class.cls stands for
\* its registered name), made unique, the scope "body" in it, and the body
\* method
CallModel(class, hparams, n, st) ==
  LET p == Append(st.path, <<class.cls, Unique(st.opened, st.path, class.cls)>>)
      b == Append(p, <<"body", 0>>)
      st1 == RunOps(ModelOps(class, hparams, n), 1,
                    [st EXCEPT !.path = b, !.opened = @ \cup {p, b}])
  IN [st1 EXCEPT !.path = st.path,
                 !.opened = close_variable_subscopes(@, p)]

(***************************************************************************)
(* get_policy and feed_forward_gaussian_fun.                               *)
(***************************************************************************)
\* what each preset function returns
RECURSIVE Returns(_)
Returns(S) ==
  IF S = {} THEN <<>>
  ELSE LET P == CHOOSE x \in S : TRUE
           r == RunPreset(P, EmptyHeap)
       IN (P :> Deep(r.heap, r.obj)) @@ Returns(S \ {P})

PresetValue == Returns(Presets)

Str_none == <<"n","o","n","e">>

\* the hparams a caller passes: a preset as returned, or ppo_original_params
\* with policy_network set by the caller
HparamsInputs ==
  { [preset |-> P, override |-> <<>>] : P \in Presets } \cup
  { [preset |-> "ppo_original_params", override |-> n] :
      n \in { Str_dense_bitwise_categorical_policy,
              default_name(FeedForwardCnnSmallCategoricalPolicyNew),
              Str_none } }

HparamsOf(h) ==
  IF h.override = <<>> THEN PresetValue[h.preset]
  ELSE [PresetValue[h.preset] EXCEPT
          !["policy_network"] = [lit |-> "str", chars |-> h.override, items |-> <<>>]]

Spaces ==
  { [kind |-> "Discrete", n |-> 2], [kind |-> "Discrete", n |-> MaxActions],
    [kind |-> "Box", n |-> 1], [kind |-> "MultiDiscrete", n |-> 2] }

Scopes == { <<>>, << <<"ppo", 0>> >> }

PolicyResult(store, op, raised, steps, created) ==
  [store |-> store, opened |-> op, raised |-> raised, steps |-> steps,
   created |-> created]

Build(a, store, op, reuse) ==
  [path |-> a.scope, opened |-> op, store |-> store, created |-> {},
   raised |-> NoError, reuse |-> reuse]

\* the registry consulted and the model built before the action space is
\* checked
get_policy_check_last(a, store, op) ==
  LET hparams == HparamsOf(a.hp)
  IN IF "policy_network" \notin DOMAIN hparams
       THEN PolicyResult(store, op, [type |-> "AttributeError", msg |-> "policy_network"],
                         <<"hparams.policy_network">>, {})
     ELSE LET m == registry_model(hparams["policy_network"].chars)
          IN IF m.raised # "none"
               THEN PolicyResult(store, op, [type |-> "LookupError", msg |-> "model"],
                                 <<"registry.model">>, {})
             ELSE LET entered == op \cup {a.scope}
                      st == CallModel(m.class, hparams, a.space.n,
                                      Build(a, store, entered, "AUTO_REUSE"))
                  IN IF a.space.kind # "Discrete"
                       THEN PolicyResult(st.store, entered,
                              [type |-> "ValueError",
                               msg |-> "Expecting discrete action space."],
                              <<"registry.model", "variable_scope", "model",
                                "isinstance">>, st.created)
                       ELSE PolicyResult(st.store, entered, st.raised,
                              <<"registry.model", "variable_scope", "model",
                                "isinstance">>, st.created)

\* the model called outside any variable_scope(..., reuse=tf.AUTO_REUSE)
get_policy_no_scope(a, store, op) ==
  IF a.space.kind # "Discrete"
    THEN PolicyResult(store, op,
           [type |-> "ValueError", msg |-> "Expecting discrete action space."],
           <<"isinstance">>, {})
  ELSE LET hparams == HparamsOf(a.hp)
       IN IF "policy_network" \notin DOMAIN hparams
            THEN PolicyResult(store, op,
                   [type |-> "AttributeError", msg |-> "policy_network"],
                   <<"isinstance", "hparams.policy_network">>, {})
          ELSE LET m == registry_model(hparams["policy_network"].chars)
               IN IF m.raised # "none"
                    THEN PolicyResult(store, op,
                           [type |-> "LookupError", msg |-> "model"],
                           <<"isinstance", "registry.model">>, {})
                  ELSE LET st == CallModel(m.class, hparams, a.space.n,
                                           Build(a, store, op, "none"))
                       IN PolicyResult(st.store, st.opened, st.raised,
                            <<"isinstance", "registry.model", "model">>,
                            st.created)

\* get_policy(observations, hparams, action_space)
get_policy(a, store, op) ==
  IF a.space.kind # "Discrete"
    THEN PolicyResult(store, op,
           [type |-> "ValueError", msg |-> "Expecting discrete action space."],
           <<"isinstance">>, {})
  ELSE LET hparams == HparamsOf(a.hp)
       IN IF "policy_network" \notin DOMAIN hparams
            THEN PolicyResult(store, op,
                   [type |-> "AttributeError", msg |-> "policy_network"],
                   <<"isinstance", "hparams.policy_network">>, {})
          ELSE LET m == registry_model(hparams["policy_network"].chars)
               IN IF m.raised # "none"
                    THEN PolicyResult(store, op,
                           [type |-> "LookupError", msg |-> "model"],
                           <<"isinstance", "registry.model">>, {})
                  ELSE \* with tf.variable_scope(tf.get_variable_scope(),
                       \*                        reuse=tf.AUTO_REUSE):
                       \* the scope's count is raised and the counts are
                       \* saved on entry and put back on exit
                       LET entered == op \cup {a.scope}
                           st == CallModel(m.class, hparams, a.space.n,
                                           Build(a, store, entered, "AUTO_REUSE"))
                       IN PolicyResult(st.store, entered, st.raised,
                            <<"isinstance", "registry.model", "variable_scope",
                              "model">>, st.created)

\* the hyperparameters feed_forward_gaussian_fun reads from config
GaussianFields == {"init_mean_factor", "init_logstd", "policy_layers", "value_layers"}

\* feed_forward_gaussian_fun(action_space, config, observations)
feed_forward_gaussian_fun(a, store, op) ==
  IF a.space.kind # "Box"
    THEN PolicyResult(store, op,
           [type |-> "ValueError", msg |-> "Expecting continuous action space."],
           <<"isinstance">>, {})
  ELSE LET cfg == HparamsOf(a.hp)
       IN IF ~(GaussianFields \subseteq DOMAIN cfg)
            THEN PolicyResult(store, op,
                   [type |-> "AttributeError", msg |-> "config"],
                   <<"isinstance", "config.init_mean_factor">>, {})
          ELSE LET np == Append(a.scope, <<"network_parameters", 0>>)
                   ops == <<Enter("policy")>> \o Stack(cfg["policy_layers"].items)
                            \o <<FC(a.space.n), GetVar("logstd"), Exit>>
                            \o <<Enter("value")>> \o Stack(cfg["value_layers"].items)
                            \o <<FC(1), Exit>>
                   st0 == Build(a, store, op \cup {np}, "none")
                   st == RunOps(ops, 1, [st0 EXCEPT !.path = np])
               IN PolicyResult(st.store, close_variable_subscopes(st.opened, np),
                    st.raised,
                    <<"isinstance", "initializers", "variable_scope", "layers">>,
                    st.created)

PolicyInit ==
  /\ varStore = {}
  /\ opened = {}
  /\ built = {}
  /\ lastPol = [fn |-> "none", scope |-> <<>>,
                hp |-> [preset |-> "ppo_base_v1", override |-> <<>>],
                space |-> [kind |-> "Box", n |-> 1],
                raised |-> NoError, steps |-> <<>>, created |-> {},
                storeBefore |-> {}, openedBefore |-> {}, again |-> FALSE,
                same |-> FALSE]
  /\ nPol = 0

PolicyIdle == PolicyInit

Record(fn, a, r) ==
  [fn |-> fn, scope |-> a.scope, hp |-> a.hp, space |-> a.space,
   raised |-> r.raised, steps |-> r.steps, created |-> r.created,
   storeBefore |-> varStore, openedBefore |-> opened,
   again |-> \E sp \in Spaces : <<a.scope, a.hp, sp>> \in built,
   same |-> <<a.scope, a.hp, a.space>> \in built]

\* a caller calls get_policy in the variable scope a.scope
GetPolicy(a) ==
  /\ nPol < MaxPolicyCalls
  /\ LET r == get_policy(a, varStore, opened)
     IN /\ varStore' = r.store
        /\ opened' = r.opened
        /\ lastPol' = Record("get_policy", a, r)
        /\ built' = IF r.raised = NoError
                      THEN built \cup {<<a.scope, a.hp, a.space>>}
                      ELSE built
  /\ nPol' = nPol + 1
  /\ UNCHANGED <<presetVars, clipVars, bodyVars, envVars>>

\* a caller calls feed_forward_gaussian_fun in the variable scope a.scope
GaussianFun(a) ==
  /\ nPol < MaxPolicyCalls
  /\ LET r == feed_forward_gaussian_fun(a, varStore, opened)
     IN /\ varStore' = r.store
        /\ opened' = r.opened
        /\ lastPol' = [Record("feed_forward_gaussian_fun", a, r)
                         EXCEPT !.again = FALSE, !.same = FALSE]
  /\ nPol' = nPol + 1
  /\ UNCHANGED <<built, presetVars, clipVars, bodyVars, envVars>>

PolicyNext ==
  \/ \E a \in [scope : Scopes, hp : HparamsInputs, space : Spaces] : GetPolicy(a)
  \/ \E a \in [scope : Scopes,
               hp : { [preset |-> P, override |-> <<>>] :
                        P \in {"ppo_base_v1", "dqn_atari_base"} },
               space : Spaces] : GaussianFun(a)


(***************************************************************************)
(* Specifications.                                                         *)
(***************************************************************************)
PresetIdle ==
  /\ heap = EmptyHeap
  /\ calls = <<>>
  /\ nAssign = 0

InitPresets == PresetInit /\ ClipIdle /\ BodyIdle /\ EnvIdle /\ PolicyIdle

SpecPresets == InitPresets /\ [][PresetNext]_vars

InitClip == ClipInit /\ PresetIdle /\ BodyIdle /\ EnvIdle /\ PolicyIdle

SpecClip == InitClip /\ [][ClipLogits]_vars

InitBody == BodyInit /\ PresetIdle /\ ClipIdle /\ EnvIdle /\ PolicyIdle

SpecBody == InitBody /\ [][CallBody]_vars

InitEnv == EnvInit /\ PresetIdle /\ ClipIdle /\ BodyIdle /\ PolicyIdle

SpecEnv == InitEnv /\ [][EnvNext]_vars

InitPolicy == PolicyInit /\ PresetIdle /\ ClipIdle /\ BodyIdle /\ EnvIdle

SpecPolicy == InitPolicy /\ [][PolicyNext]_vars

(***************************************************************************)
(* Properties of clip_logits and of RandomPolicy.body.                     *)
(***************************************************************************)
\* C2: clip_logits returns its input, element for element, when the
\* configuration has no logits_clip or one that is <= 0.
C2_ClipIdentity ==
  (pcClip = "done" /\ (~config.has \/ config.logits_clip <= 0)) =>
    clipped = logits

C2_Witness ==
  /\ pcClip = "done"
  /\ config.has /\ config.logits_clip = 0
  /\ Len(logits) = MaxLen
  /\ logits[1] < 0 /\ logits[2] > logits[1]
  /\ clipped = logits

\* C3: with logits_clip = c > 0, the tensor returned has the input's length
\* and each element is min(x - m, c), m the least input element, and so lies
\* in [0, c].
C3_ClipRange ==
  (pcClip = "done" /\ config.has /\ config.logits_clip > 0) =>
    /\ DOMAIN clipped = DOMAIN logits
    /\ \A k \in DOMAIN logits :
         LET c == config.logits_clip
             m == CHOOSE x \in Floats :
                    /\ \E j \in DOMAIN logits : logits[j] = x
                    /\ \A j \in DOMAIN logits : x <= logits[j]
         IN /\ clipped[k] >= 0 /\ clipped[k] <= c
            /\ clipped[k] = IF logits[k] - m < c THEN logits[k] - m ELSE c

C3_Witness ==
  /\ pcClip = "done"
  /\ config.has /\ config.logits_clip = 1
  /\ logits = <<MaxLogit, 0 - MaxLogit, 1 - MaxLogit>>
  /\ clipped = <<1, 0, 1>>

C6_RealEnvFn ==
  /\ \A k \in DOMAIN fns :
       fns[k].kind = "real" =>
         /\ fns[k].env = fns[k].arg
         /\ pyobjs[fns[k].arg] = RealEnv
  /\ \A i \in DOMAIN envCalls :
       LET c == envCalls[i]
           f == fns[c.fn]
       IN f.kind = "real" =>
            /\ c.raised = NotRaised
            /\ ~c.in_graph => c.result = f.arg
            /\ c.in_graph =>
                 /\ c.result \notin RealEnvs
                 /\ pyobjs[c.result].kind = "PyFuncBatchEnv"
                 /\ pyobjs[c.result].wraps = f.arg
                 /\ \A j \in DOMAIN envCalls :
                      (j # i /\ envCalls[j].in_graph) =>
                        envCalls[j].result # c.result

C6_Witness ==
  /\ Len(envCalls) = 2
  /\ envCalls[1].fn = envCalls[2].fn
  /\ fns[envCalls[1].fn].kind = "real"
  /\ fns[envCalls[1].fn].arg = 2
  /\ envCalls[1].in_graph /\ ~envCalls[2].in_graph
  /\ envCalls[2].result = 2
  /\ pyobjs[envCalls[1].result].wraps = 2

\* C7: for every function g made by make_simulated_env_fn(**kwargs) and
\* every call of it: g(True) constructed SimulatedBatchEnv and g(False)
\* SimulatedBatchGymEnv, each with exactly kwargs; a call that succeeded
\* returned an object of that class holding kwargs; and two calls of g, one
\* with each flag, both succeeded or both raised the same error.
C7_SimulatedEnvFn ==
  /\ \A k \in DOMAIN fns :
       fns[k].kind = "sim" => fns[k].env_kwargs = fns[k].kwargs_arg
  /\ \A i \in DOMAIN envCalls :
       LET c == envCalls[i]
           g == fns[c.fn]
       IN g.kind = "sim" =>
            /\ c.cls = IF c.in_graph THEN "SimulatedBatchEnv"
                                     ELSE "SimulatedBatchGymEnv"
            /\ c.passed = g.kwargs_arg
            /\ c.raised = NotRaised =>
                 /\ pyobjs[c.result].kind = c.cls
                 /\ pyobjs[c.result].kwargs = g.kwargs_arg
            /\ c.raised # NotRaised => c.result = 0
            /\ \A j \in DOMAIN envCalls :
                 (envCalls[j].fn = c.fn /\ envCalls[j].in_graph # c.in_graph) =>
                   envCalls[j].raised = c.raised

C7_Witness ==
  /\ Len(envCalls) = 2
  /\ envCalls[1].fn = envCalls[2].fn
  /\ fns[envCalls[1].fn].kind = "sim"
  /\ DOMAIN fns[envCalls[1].fn].kwargs_arg = {"model_name", "sim_video_dir"}
  /\ envCalls[1].in_graph /\ ~envCalls[2].in_graph
  /\ envCalls[1].raised.what = "missing"
  /\ envCalls[1].raised.names = {"batch_size"}
  /\ envCalls[2].raised = envCalls[1].raised

(***************************************************************************)
(* Properties of get_policy and feed_forward_gaussian_fun.                 *)
(***************************************************************************)
Rejected(msg) == [type |-> "ValueError", msg |-> msg]

\* C4: get_policy raises ValueError for every action space that is not
\* Discrete, and feed_forward_gaussian_fun for every action space that is
\* not Box; the check is the first and only step taken: no registry lookup,
\* no variable scope opened, no variable created, the variable store as it
\* was before the call.
C4_RejectedBeforeAnyEffect ==
  /\ (lastPol.fn = "get_policy" /\ lastPol.space.kind # "Discrete") =>
       /\ lastPol.raised = Rejected("Expecting discrete action space.")
       /\ lastPol.steps = <<"isinstance">>
       /\ lastPol.created = {}
       /\ varStore = lastPol.storeBefore
       /\ opened = lastPol.openedBefore
  /\ (lastPol.fn = "feed_forward_gaussian_fun" /\ lastPol.space.kind # "Box") =>
       /\ lastPol.raised = Rejected("Expecting continuous action space.")
       /\ lastPol.steps = <<"isinstance">>
       /\ lastPol.created = {}
       /\ varStore = lastPol.storeBefore
       /\ opened = lastPol.openedBefore
  /\ (lastPol.fn = "get_policy" /\ lastPol.space.kind = "Discrete") =>
       lastPol.raised.msg # "Expecting discrete action space."
  /\ (lastPol.fn = "feed_forward_gaussian_fun" /\ lastPol.space.kind = "Box") =>
       lastPol.raised.msg # "Expecting continuous action space."

\* a continuous action space passed to get_policy after a network was built
C4_Witness ==
  /\ lastPol.fn = "get_policy"
  /\ lastPol.space.kind = "Box"
  /\ lastPol.hp = [preset |-> "ppo_original_params", override |-> <<>>]
  /\ lastPol.raised = Rejected("Expecting discrete action space.")
  /\ lastPol.storeBefore # {}
  /\ varStore = lastPol.storeBefore

\* C9: once get_policy has succeeded with some hparams in some enclosing
\* variable scope, every further call with the same hparams in that scope
\* creates no variable and raises no already-exists error: the variable
\* store is the one the call found; with the same action space the call
\* succeeds.
C9_VariablesReused ==
  (lastPol.fn = "get_policy" /\ lastPol.again) =>
    /\ lastPol.created = {}
    /\ varStore = lastPol.storeBefore
    /\ lastPol.raised.msg # "already exists"
    /\ lastPol.same => lastPol.raised = NoError

\* ppo_atari_base's convolutional network built a second time in scope ppo
C9_Witness ==
  /\ lastPol.fn = "get_policy"
  /\ lastPol.again /\ lastPol.same
  /\ lastPol.scope = << <<"ppo", 0>> >>
  /\ lastPol.hp = [preset |-> "ppo_atari_base", override |-> <<>>]
  /\ lastPol.raised = NoError
  /\ lastPol.created = {}
  /\ Cardinality(varStore) = 10
  /\ \E v \in varStore :
       v.name = << <<"ppo", 0>>, <<"FeedForwardCnnSmallCategoricalPolicy", 0>>,
                   <<"body", 0>>, <<"feed_forward_cnn_small", 0>>,
                   <<"fully_connected", 2>>, <<"biases", 0>> >>

HasPolicyNetwork == { P \in Presets : "policy_network" \in DOMAIN PresetValue[P] }

\* C10: the presets with a policy_network field are ppo_discrete_action_base,
\* discrete_random_action_base, ppo_atari_base, ppo_original_params and
\* ppo_pong_ae_base; in each the field is a string, the registered name of a
\* model class of the module, and get_policy called with the preset as
\* returned never fails in the registry lookup.
C10_PolicyNetworkRegistered ==
  /\ HasPolicyNetwork =
       {"ppo_discrete_action_base", "discrete_random_action_base",
        "ppo_atari_base", "ppo_original_params", "ppo_pong_ae_base"}
  /\ \A P \in HasPolicyNetwork :
       /\ PresetValue[P]["policy_network"].lit = "str"
       /\ PresetValue[P]["policy_network"].chars \in DOMAIN Models
       /\ Models[PresetValue[P]["policy_network"].chars] \in RegisteredModels
  /\ (/\ lastPol.fn = "get_policy"
      /\ lastPol.space.kind = "Discrete"
      /\ lastPol.hp.override = <<>>
      /\ lastPol.hp.preset \in HasPolicyNetwork) =>
       /\ lastPol.raised.type # "LookupError"
       /\ Len(lastPol.steps) = 4

\* discrete_random_action_base resolves to RandomPolicy, which creates
\* dummy_var
C10_Witness ==
  /\ lastPol.fn = "get_policy"
  /\ lastPol.hp = [preset |-> "discrete_random_action_base", override |-> <<>>]
  /\ PresetValue["discrete_random_action_base"]["policy_network"].chars
       = Str_random_policy
  /\ lastPol.raised = NoError
  /\ lastPol.created =
       { << <<"RandomPolicy", 0>>, <<"body", 0>>, <<"dummy_var", 0>> >> }

====
